---- MODULE Spec2Model ----
(***************************************************************************)
(* A model of the httpclient package: the proxy-string normaliser          *)
(* (proxy.go), construction and the cookie helpers (client.go), request    *)
(* dispatch and the query merge (request.go) and the bounded body reader   *)
(* (helpers.go).                                                           *)
(*                                                                         *)
(* A Go string is modelled as a sequence of one-character strings, so that *)
(* splitting, trimming, percent-encoding and parsing are computed, not     *)
(* assumed.  The operators that model net/url, net/textproto, net/http and *)
(* net/http/cookiejar follow the standard library the package calls.       *)
(* An operator named ...Of, ...At or ...With is the rest of the function   *)
(* named before it, given a value that function has just computed.         *)
(***************************************************************************)
EXTENDS Integers, Sequences, FiniteSets, TLC

VARIABLES
    proxyIn,    \* the raw proxy string handed to ProxyURLConvert / Config.ProxyURL
    proxyOut,   \* what ProxyURLConvert and New returned for proxyIn
    queryIn,    \* the (rawURL, query) pair handed to applyQuery
    queryOut,   \* what applyQuery returned for queryIn
    client,     \* the constructed Client and the Config it was built from
    opts,       \* the Options value the caller holds and passes to the dispatch calls
    jar,        \* the Client's cookie jar: the entries of cookiejar.Jar
    last,       \* the last call on the Client: its arguments, the request sent, the result
    cookieLog,  \* history: per cookie name the last SetCookie / DeleteCookie, and the URLs used
    rb          \* one ReadBody activation: the response body, the reader, the result

vars == <<proxyIn, proxyOut, queryIn, queryOut, client, opts, jar, last, cookieLog, rb>>

-----------------------------------------------------------------------------
(* Bytes and strings *)

LowerLetters == <<"a","b","c","d","e","f","g","h","i","j","k","l","m",
                  "n","o","p","q","r","s","t","u","v","w","x","y","z">>
UpperLetters == <<"A","B","C","D","E","F","G","H","I","J","K","L","M",
                  "N","O","P","Q","R","S","T","U","V","W","X","Y","Z">>
Digits == <<"0","1","2","3","4","5","6","7","8","9">>

LowerSet == {LowerLetters[i] : i \in DOMAIN LowerLetters}
UpperSet == {UpperLetters[i] : i \in DOMAIN UpperLetters}
DigitSet == {Digits[i] : i \in DOMAIN Digits}

IsLower(c) == c \in LowerSet
IsUpper(c) == c \in UpperSet
IsLetter(c) == c \in LowerSet \/ c \in UpperSet
IsDigit(c) == c \in DigitSet
IsHex(c) == c \in DigitSet \/ c \in {"a","b","c","d","e","f","A","B","C","D","E","F"}

PosIn(seq, c) == CHOOSE i \in DOMAIN seq : seq[i] = c

ToLowerByte(c) == IF c \in UpperSet THEN LowerLetters[PosIn(UpperLetters, c)] ELSE c
ToUpperByte(c) == IF c \in LowerSet THEN UpperLetters[PosIn(LowerLetters, c)] ELSE c

\* strings.ToLower of an ASCII string.
ToLower(s) == [i \in DOMAIN s |-> ToLowerByte(s[i])]

\* The bytes of the model in ASCII order (sort.Strings compares bytewise).
AsciiOrder == <<" ", "!", "\"", "#", "$", "%", "&", "'", "(", ")", "*", "+", ",",
                "-", ".", "/">> \o Digits \o <<":", ";", "<", "=", ">", "?", "@">>
              \o UpperLetters \o <<"[", "]", "_">> \o LowerLetters \o <<"~">>

Code(c) == PosIn(AsciiOrder, c)

Min(a, b) == IF a < b THEN a ELSE b

Take(s, n) == SubSeq(s, 1, Min(n, Len(s)))
Drop(s, n) == SubSeq(s, n + 1, Len(s))

HasPrefix(s, p) == Len(p) <= Len(s) /\ SubSeq(s, 1, Len(p)) = p
HasSuffix(s, p) == Len(p) <= Len(s) /\ SubSeq(s, Len(s) - Len(p) + 1, Len(s)) = p

\* The 0-based offsets at which sub occurs in s.
Occurrences(s, sub) ==
    {i \in 0..(Len(s) - Len(sub)) : SubSeq(s, i + 1, i + Len(sub)) = sub}

LeastOr(hits) == IF hits = {} THEN -1 ELSE CHOOSE i \in hits : \A j \in hits : i <= j
GreatestOr(hits) == IF hits = {} THEN -1 ELSE CHOOSE i \in hits : \A j \in hits : i >= j

\* strings.Index and strings.LastIndex: an offset, or -1.
Index(s, sub) == LeastOr(Occurrences(s, sub))
LastIndex(s, sub) == GreatestOr(Occurrences(s, sub))

Contains(s, sub) == Occurrences(s, sub) # {}

Count(s, c) == Cardinality({i \in DOMAIN s : s[i] = c})

\* strings.Cut.
CutAt(s, sep, i) ==
    IF i < 0 THEN [before |-> s, after |-> <<>>, found |-> FALSE]
    ELSE [before |-> Take(s, i), after |-> Drop(s, i + Len(sep)), found |-> TRUE]

Cut(s, sep) == CutAt(s, sep, Index(s, sep))

\* strings.Split(s, sep) for a one-byte separator: always Count+1 fields.
RECURSIVE Split(_, _)
SplitOf(c, sep) ==
    IF c.found THEN <<c.before>> \o Split(c.after, sep) ELSE <<c.before>>

Split(s, sep) == SplitOf(Cut(s, <<sep>>), sep)

IsSpace(c) == c \in {" ", "\t", "\n", "\r"}

RECURSIVE TrimLeft(_)
TrimLeft(s) == IF s # <<>> /\ IsSpace(s[1]) THEN TrimLeft(Tail(s)) ELSE s

RECURSIVE TrimRight(_)
TrimRight(s) ==
    IF s # <<>> /\ IsSpace(s[Len(s)]) THEN TrimRight(SubSeq(s, 1, Len(s) - 1)) ELSE s

\* strings.TrimSpace.
TrimSpace(s) == TrimRight(TrimLeft(s))

\* Bytewise s < t.
RECURSIVE StrLess(_, _)
StrLess(s, t) ==
    IF t = <<>> THEN FALSE
    ELSE IF s = <<>> THEN TRUE
    ELSE IF s[1] # t[1] THEN Code(s[1]) < Code(t[1])
    ELSE StrLess(Tail(s), Tail(t))

\* The strings of length 0..n over an alphabet.
StringsUpTo(alphabet, n) == UNION {[1..k -> alphabet] : k \in 0..n}

-----------------------------------------------------------------------------
(* net/url: escaping *)

HostAllowed == {"!", "$", "&", "'", "(", ")", "*", "+", ",", ";", "=", ":",
                "[", "]", "<", ">", "\""}
ReservedBytes == {"$", "&", "+", ",", "/", ":", ";", "=", "?", "@"}

\* url.shouldEscape(c, mode).
ShouldEscape(c, mode) ==
    IF IsLetter(c) \/ IsDigit(c) THEN FALSE
    ELSE IF mode \in {"host", "zone"} /\ c \in HostAllowed THEN FALSE
    ELSE IF c \in {"-", "_", ".", "~"} THEN FALSE
    ELSE IF c \in ReservedBytes /\ mode = "path" THEN c = "?"
    ELSE IF c \in ReservedBytes /\ mode = "pathSegment" THEN c \in {"/", ";", ",", "?"}
    ELSE IF c \in ReservedBytes /\ mode = "userPassword" THEN c \in {"@", "/", "?", ":"}
    ELSE IF c \in ReservedBytes /\ mode = "queryComponent" THEN TRUE
    ELSE IF c \in ReservedBytes /\ mode = "fragment" THEN FALSE
    ELSE IF mode = "fragment" /\ c \in {"!", "(", ")", "*"} THEN FALSE
    ELSE TRUE

\* The two upper-case hex digits of a byte, for the bytes that can need escaping.
PctBytes == <<" ", "\"", "#", "%", "&", "+", ",", "/", ":", ";", "<", "=", ">", "?",
              "@", "[", "]", "!", "$", "'", "(", ")", "*">>
PctHex   == <<<<"2","0">>, <<"2","2">>, <<"2","3">>, <<"2","5">>, <<"2","6">>,
              <<"2","B">>, <<"2","C">>, <<"2","F">>, <<"3","A">>, <<"3","B">>,
              <<"3","C">>, <<"3","D">>, <<"3","E">>, <<"3","F">>, <<"4","0">>,
              <<"5","B">>, <<"5","D">>, <<"2","1">>, <<"2","4">>, <<"2","7">>,
              <<"2","8">>, <<"2","9">>, <<"2","A">>>>

\* A byte the model has no letter for (a valid %XX that is not in PctHex).
OtherByte == "\\x"

HexOf(c) == PctHex[PosIn(PctBytes, c)]

\* unhex of a pair of hex digits.
ByteOfPair(pair) ==
    IF \E i \in DOMAIN PctHex : PctHex[i] = pair THEN PctBytes[PosIn(PctHex, pair)]
    ELSE OtherByte

ByteOf(hi, lo) == ByteOfPair(<<ToUpperByte(hi), ToUpperByte(lo)>>)

EscapeByte(c, mode) ==
    IF ~ShouldEscape(c, mode) THEN <<c>>
    ELSE IF c = " " /\ mode = "queryComponent" THEN <<"+">>
    ELSE <<"%">> \o HexOf(c)

\* url.escape(s, mode).
RECURSIVE Escape(_, _)
Escape(s, mode) ==
    IF s = <<>> THEN <<>> ELSE EscapeByte(Head(s), mode) \o Escape(Tail(s), mode)

\* url.unescape(s, mode), first pass: is s malformed?
RECURSIVE UnescapeErr(_, _)
UnescapeErr(s, mode) ==
    IF s = <<>> THEN FALSE
    ELSE IF Head(s) = "%"
         THEN IF Len(s) < 3 \/ ~IsHex(s[2]) \/ ~IsHex(s[3]) THEN TRUE
              ELSE IF mode = "host" /\ s[2] \in {"0","1","2","3","4","5","6","7"}
                      /\ SubSeq(s, 1, 3) # <<"%", "2", "5">> THEN TRUE
              ELSE UnescapeErr(Drop(s, 3), mode)
    ELSE IF Head(s) # "+" /\ mode \in {"host", "zone"} /\ ShouldEscape(Head(s), "host")
         THEN TRUE
    ELSE UnescapeErr(Tail(s), mode)

\* url.unescape(s, mode), second pass: the decoded bytes of a well-formed s.
RECURSIVE UnescapeVal(_, _)
UnescapeVal(s, mode) ==
    IF s = <<>> THEN <<>>
    ELSE IF Head(s) = "%" THEN <<ByteOf(s[2], s[3])>> \o UnescapeVal(Drop(s, 3), mode)
    ELSE IF Head(s) = "+" /\ mode = "queryComponent" THEN <<" ">> \o UnescapeVal(Tail(s), mode)
    ELSE <<Head(s)>> \o UnescapeVal(Tail(s), mode)

\* url.unescape(s, mode): [err, s].
Unescape(s, mode) ==
    IF UnescapeErr(s, mode) THEN [err |-> TRUE, s |-> <<>>]
    ELSE [err |-> FALSE, s |-> UnescapeVal(s, mode)]

\* url.validEncoded(s, mode).
ValidEncoded(s, mode) ==
    \A i \in DOMAIN s :
        \/ s[i] \in {"!", "$", "&", "'", "(", ")", "*", "+", ",", ";", "=", ":", "@",
                     "[", "]", "%"}
        \/ ~ShouldEscape(s[i], mode)

\* url.QueryEscape / url.QueryUnescape.
QueryEscape(s) == Escape(s, "queryComponent")
QueryUnescape(s) == Unescape(s, "queryComponent")

-----------------------------------------------------------------------------
(* net/url: Parse and String *)

EmptyURL ==
    [err |-> FALSE, Scheme |-> <<>>, Opaque |-> <<>>, HasUser |-> FALSE,
     Username |-> <<>>, Password |-> <<>>, PasswordSet |-> FALSE, Host |-> <<>>,
     Path |-> <<>>, RawPath |-> <<>>, OmitHost |-> FALSE, ForceQuery |-> FALSE,
     RawQuery |-> <<>>, Fragment |-> <<>>, RawFragment |-> <<>>]

ErrURL == [EmptyURL EXCEPT !.err = TRUE]

NoScheme(rawURL) == [err |-> FALSE, scheme |-> <<>>, rest |-> rawURL]

\* url.getScheme: [err, scheme, rest].
RECURSIVE GetSchemeFrom(_, _)
GetSchemeFrom(rawURL, i) ==
    IF i > Len(rawURL) THEN NoScheme(rawURL)
    ELSE IF IsLetter(rawURL[i]) THEN GetSchemeFrom(rawURL, i + 1)
    ELSE IF IsDigit(rawURL[i]) \/ rawURL[i] \in {"+", "-", "."}
         THEN IF i = 1 THEN NoScheme(rawURL) ELSE GetSchemeFrom(rawURL, i + 1)
    ELSE IF rawURL[i] = ":"
         THEN IF i = 1 THEN [err |-> TRUE, scheme |-> <<>>, rest |-> <<>>]
              ELSE [err |-> FALSE, scheme |-> Take(rawURL, i - 1), rest |-> Drop(rawURL, i)]
    ELSE NoScheme(rawURL)

GetScheme(rawURL) == GetSchemeFrom(rawURL, 1)

\* url.validOptionalPort.
ValidOptionalPort(port) ==
    \/ port = <<>>
    \/ port[1] = ":" /\ \A i \in 2..Len(port) : IsDigit(port[i])

\* url.validUserinfo.
ValidUserinfo(s) ==
    \A i \in DOMAIN s :
        \/ IsLetter(s[i]) \/ IsDigit(s[i])
        \/ s[i] \in {"-", ".", "_", ":", "~", "!", "$", "&", "'", "(", ")", "*", "+",
                     ",", ";", "=", "%", "@"}

\* url.parseHost, the check of the port: i is the offset of the closing bracket
\* of an IP literal, or of the last colon of any other host.
BadPort(host, bracket, i) ==
    IF bracket THEN i < 0 \/ ~ValidOptionalPort(Drop(host, i + 1))
    ELSE i >= 0 /\ ~ValidOptionalPort(Drop(host, i))

HostOf(u) == [err |-> u.err, host |-> u.s]

\* url.parseHost (without IPv6 zones): [err, host].
ParseHost(host) ==
    IF BadPort(host, HasPrefix(host, <<"[">>),
               LastIndex(host, IF HasPrefix(host, <<"[">>) THEN <<"]">> ELSE <<":">>))
    THEN [err |-> TRUE, host |-> <<>>]
    ELSE HostOf(Unescape(host, "host"))

NoAuthority ==
    [err |-> TRUE, HasUser |-> FALSE, Username |-> <<>>, Password |-> <<>>,
     PasswordSet |-> FALSE, Host |-> <<>>]

UserOf(u, host) ==
    IF u.err THEN NoAuthority
    ELSE [err |-> FALSE, HasUser |-> TRUE, Username |-> u.s, Password |-> <<>>,
          PasswordSet |-> FALSE, Host |-> host]

UserPasswordOf(u, p, host) ==
    IF u.err \/ p.err THEN NoAuthority
    ELSE [err |-> FALSE, HasUser |-> TRUE, Username |-> u.s, Password |-> p.s,
          PasswordSet |-> TRUE, Host |-> host]

UserPasswordAt(c, host) ==
    UserPasswordOf(Unescape(c.before, "userPassword"), Unescape(c.after, "userPassword"),
                   host)

\* url.parseAuthority after parseHost: h is the parsed host, i the offset of the
\* last '@' (or -1) and userinfo what stands before it.
AuthorityOf(h, i, userinfo) ==
    IF h.err THEN NoAuthority
    ELSE IF i < 0 THEN [NoAuthority EXCEPT !.err = FALSE, !.Host = h.host]
    ELSE IF ~ValidUserinfo(userinfo) THEN NoAuthority
    ELSE IF ~Contains(userinfo, <<":">>)
         THEN UserOf(Unescape(userinfo, "userPassword"), h.host)
    ELSE UserPasswordAt(Cut(userinfo, <<":">>), h.host)

AuthorityAt(authority, i) ==
    AuthorityOf(ParseHost(IF i < 0 THEN authority ELSE Drop(authority, i + 1)),
                i, IF i < 0 THEN <<>> ELSE Take(authority, i))

\* url.parseAuthority: [err, HasUser, Username, Password, PasswordSet, Host].
ParseAuthority(authority) == AuthorityAt(authority, LastIndex(authority, <<"@">>))

SetPathOf(url, p, u) ==
    IF u.err THEN ErrURL
    ELSE [url EXCEPT !.Path = u.s,
                     !.RawPath = IF Escape(u.s, "path") = p THEN <<>> ELSE p]

\* (*URL).setPath applied to url.
SetPath(url, p) == SetPathOf(url, p, Unescape(p, "path"))

\* url.parse, "if a, err := parseAuthority(authority)": a is the parsed authority.
WithAuthority(url, a, path) ==
    IF a.err THEN ErrURL
    ELSE SetPath([url EXCEPT !.HasUser = a.HasUser, !.Username = a.Username,
                             !.Password = a.Password, !.PasswordSet = a.PasswordSet,
                             !.Host = a.Host], path)

\* url.parse, the split of "//authority/path": i is the offset of the first '/'.
AuthorityPathAt(url, after, i) ==
    WithAuthority(url, ParseAuthority(IF i >= 0 THEN Take(after, i) ELSE after),
                  IF i >= 0 THEN Drop(after, i) ELSE <<>>)

\* url.parse after the scheme and the query are taken off: rest is what is left.
ParseHier(url, rest) ==
    IF ~HasPrefix(rest, <<"/">>) /\ url.Scheme # <<>>
    THEN [url EXCEPT !.Opaque = rest]
    ELSE IF ~HasPrefix(rest, <<"/">>) /\ Contains(Cut(rest, <<"/">>).before, <<":">>)
    THEN ErrURL
    ELSE IF (url.Scheme # <<>> \/ ~HasPrefix(rest, <<"/", "/", "/">>))
            /\ HasPrefix(rest, <<"/", "/">>)
    THEN AuthorityPathAt(url, Drop(rest, 2), Index(Drop(rest, 2), <<"/">>))
    ELSE SetPath([url EXCEPT !.OmitHost = (url.Scheme # <<>> /\ HasPrefix(rest, <<"/">>))],
                 rest)

QueryCutOf(url, qcut) == ParseHier([url EXCEPT !.RawQuery = qcut.after], qcut.before)

\* url.parse, the split at '?': a lone trailing '?' sets ForceQuery.
ParseQueryPart(url, rest) ==
    IF HasSuffix(rest, <<"?">>) /\ Count(rest, "?") = 1
    THEN ParseHier([url EXCEPT !.ForceQuery = TRUE], Take(rest, Len(rest) - 1))
    ELSE QueryCutOf(url, Cut(rest, <<"?">>))

SchemeOf(g) ==
    IF g.err THEN ErrURL
    ELSE ParseQueryPart([EmptyURL EXCEPT !.Scheme = ToLower(g.scheme)], g.rest)

\* url.parse(rawURL, viaRequest = false), for a rawURL without fragment.
ParseNoFragment(rawURL) ==
    IF \E i \in DOMAIN rawURL : rawURL[i] \in {"\t", "\n", "\r"} THEN ErrURL
    ELSE IF rawURL = <<"*">> THEN [EmptyURL EXCEPT !.Path = <<"*">>]
    ELSE SchemeOf(GetScheme(rawURL))

FragmentOf(u, frag, f) ==
    IF f.err THEN ErrURL
    ELSE [u EXCEPT !.Fragment = f.s,
                   !.RawFragment = IF Escape(f.s, "fragment") = frag THEN <<>> ELSE frag]

WithFragment(u, frag) ==
    IF u.err THEN ErrURL
    ELSE IF frag = <<>> THEN u
    ELSE FragmentOf(u, frag, Unescape(frag, "fragment"))

FragmentCutOf(c) == WithFragment(ParseNoFragment(c.before), c.after)

\* url.Parse(rawURL).
URLParse(rawURL) == FragmentCutOf(Cut(rawURL, <<"#">>))

\* (*URL).EscapedPath and (*URL).EscapedFragment.
Escaped(raw, decoded, mode) ==
    IF raw # <<>> /\ ValidEncoded(raw, mode) /\ ~UnescapeErr(raw, mode)
       /\ UnescapeVal(raw, mode) = decoded
    THEN raw
    ELSE IF mode = "path" /\ decoded = <<"*">> THEN <<"*">>
    ELSE Escape(decoded, mode)

\* (*Userinfo).String.
UserinfoString(u) ==
    Escape(u.Username, "userPassword")
    \o (IF u.PasswordSet THEN <<":">> \o Escape(u.Password, "userPassword") ELSE <<>>)

\* (*URL).String, "scheme:".
SchemePart(u) == IF u.Scheme # <<>> THEN u.Scheme \o <<":">> ELSE <<>>

\* (*URL).String, "//userinfo@host".
AuthorityPart(u) ==
    IF (u.Scheme # <<>> \/ u.Host # <<>> \/ u.HasUser)
       /\ ~(u.OmitHost /\ u.Host = <<>> /\ ~u.HasUser)
    THEN (IF u.Host # <<>> \/ u.Path # <<>> \/ u.HasUser THEN <<"/", "/">> ELSE <<>>)
         \o (IF u.HasUser THEN UserinfoString(u) \o <<"@">> ELSE <<>>)
         \o (IF u.Host # <<>> THEN Escape(u.Host, "host") ELSE <<>>)
    ELSE <<>>

\* (*URL).String, the path with the "/" or "./" that keeps it a path.
PathPart(u, head, path) ==
    (IF path # <<>> /\ path[1] # "/" /\ u.Host # <<>> THEN <<"/">>
     ELSE IF head = <<>> /\ Contains(Cut(path, <<"/">>).before, <<":">>)
          THEN <<".", "/">>
     ELSE <<>>)
    \o path

URLStringOf(u, scheme, auth) ==
    scheme
    \o (IF u.Opaque # <<>> THEN u.Opaque
        ELSE auth \o PathPart(u, scheme \o auth, Escaped(u.RawPath, u.Path, "path")))
    \o (IF u.ForceQuery \/ u.RawQuery # <<>> THEN <<"?">> \o u.RawQuery ELSE <<>>)
    \o (IF u.Fragment # <<>>
        THEN <<"#">> \o Escaped(u.RawFragment, u.Fragment, "fragment") ELSE <<>>)

\* (*URL).String.
URLString(u) == URLStringOf(u, SchemePart(u), AuthorityPart(u))

-----------------------------------------------------------------------------
(* proxy.go *)

\* ProxyURLConvert, the "host:port:user:pass" branch: parts are the fields.
ConvertFields(parts) ==
    IF Len(parts) # 4 THEN [url |-> <<>>, err |-> TRUE]
    ELSE [url |-> URLString([EmptyURL EXCEPT
                     !.Scheme = <<"h", "t", "t", "p">>,
                     !.Host = parts[1] \o <<":">> \o parts[2],
                     !.HasUser = TRUE,
                     !.Username = parts[3],
                     !.Password = parts[4],
                     !.PasswordSet = TRUE]),
          err |-> FALSE]

\* ProxyURLConvert after strings.TrimSpace.
ConvertTrimmed(s) ==
    IF s = <<>> THEN [url |-> <<>>, err |-> FALSE]
    ELSE IF Contains(s, <<":", "/", "/">>)
    THEN IF URLParse(s).err THEN [url |-> <<>>, err |-> TRUE]
         ELSE [url |-> s, err |-> FALSE]
    ELSE ConvertFields(Split(s, ":"))

\* ProxyURLConvert(s): [url, err].
ProxyURLConvert(raw) == ConvertTrimmed(TrimSpace(raw))

-----------------------------------------------------------------------------
(* client.go: Config, Client, New *)

DefaultTimeout == 15
DefaultMaxIdleConns == 1000
DefaultMaxIdleConnsPerHost == 100
DefaultIdleConnTimeout == 90

UserAgent == <<"U", "s", "e", "r", "-", "A", "g", "e", "n", "t">>
ContentType == <<"C", "o", "n", "t", "e", "n", "t", "-", "T", "y", "p", "e">>

\* A Go map[string]string is a function from its keys to its values; m[k] of a
\* missing key is the zero value "".
EmptyMap == [k \in {} |-> ""]
MapGet(m, k) == IF k \in DOMAIN m THEN m[k] ELSE ""
MapPut(m, k, v) == [x \in DOMAIN m \cup {k} |-> IF x = k THEN v ELSE m[x]]
\* for k, v := range src { dst[k] = v }: the keys of src are distinct Go strings,
\* so the order of the iteration does not show in dst.
MapCopyInto(dst, src) ==
    [x \in DOMAIN dst \cup DOMAIN src |-> IF x \in DOMAIN src THEN src[x] ELSE dst[x]]

NoClient == [built |-> FALSE]

\* New(cfg): [err, client].
New(cfg) ==
    IF cfg.ProxyURL # <<>> /\ URLParse(cfg.ProxyURL).err
    THEN [err |-> TRUE, client |-> NoClient]
    ELSE [err |-> FALSE,
          client |-> [built |-> TRUE,
                      timeout |-> IF cfg.Timeout = 0 THEN DefaultTimeout ELSE cfg.Timeout,
                      maxIdleConns |-> IF cfg.MaxIdleConns = 0 THEN DefaultMaxIdleConns
                                       ELSE cfg.MaxIdleConns,
                      maxIdleConnsPerHost |-> IF cfg.MaxIdleConnsPerHost = 0
                                              THEN DefaultMaxIdleConnsPerHost
                                              ELSE cfg.MaxIdleConnsPerHost,
                      idleConnTimeout |-> IF cfg.IdleConnTimeout = 0
                                          THEN DefaultIdleConnTimeout
                                          ELSE cfg.IdleConnTimeout,
                      proxy |-> cfg.ProxyURL,
                      baseHeaders |-> MapCopyInto((UserAgent :> "Mozilla/5.0"),
                                                  cfg.BaseHeaders)]]

-----------------------------------------------------------------------------
(* net/textproto and net/http: header names *)

\* textproto.validHeaderFieldByte: the token bytes of RFC 7230.
ValidHeaderFieldByte(c) ==
    IsLetter(c) \/ IsDigit(c)
    \/ c \in {"!", "#", "$", "%", "&", "'", "*", "+", "-", ".", "^", "_", "|", "~"}

\* The letters of a key with the first one, and each one after a '-', in upper case.
RECURSIVE CanonLetters(_, _)
CanonLetters(s, upper) ==
    IF s = <<>> THEN <<>>
    ELSE <<IF upper THEN ToUpperByte(Head(s)) ELSE ToLowerByte(Head(s))>>
         \o CanonLetters(Tail(s), Head(s) = "-")

\* textproto.CanonicalMIMEHeaderKey: a key with a byte that is no token byte is
\* left as it is.
CanonicalMIMEHeaderKey(s) ==
    IF \E i \in DOMAIN s : ~ValidHeaderFieldByte(s[i]) THEN s ELSE CanonLetters(s, TRUE)

HeaderPut(h, k, value) == [x \in DOMAIN h \cup {k} |-> IF x = k THEN <<value>> ELSE h[x]]

\* http.Header is map[string][]string; Header.Set(key, value) replaces the values
\* stored under the canonical form of key.
HeaderSet(h, key, value) == HeaderPut(h, CanonicalMIMEHeaderKey(key), value)

EmptyHeader == [k \in {} |-> <<>>]

\* for k, v := range m { h.Set(k, v) }, the keys visited in the given order.
RECURSIVE SetAll(_, _, _)
SetAll(h, m, order) ==
    IF order = <<>> THEN h
    ELSE SetAll(HeaderSet(h, Head(order), m[Head(order)]), m, Tail(order))

\* The orders in which a range over the map m can visit its keys: Go leaves the
\* iteration order of a map unspecified.
RangeOrders(m) ==
    {o \in [1..Cardinality(DOMAIN m) -> DOMAIN m] :
        \A i, j \in DOMAIN o : i # j => o[i] # o[j]}

\* http.validMethod, after NewRequestWithContext's "" means GET.
ValidMethod(method) ==
    method = <<>> \/ \A i \in DOMAIN method : ValidHeaderFieldByte(method[i])

-----------------------------------------------------------------------------
(* net/url: Values *)

\* url.Values is map[string][]string.
EmptyValues == [k \in {} |-> <<>>]

ValuesAdd(m, k, v) ==
    [x \in DOMAIN m \cup {k} |-> IF x = k
                                 THEN (IF k \in DOMAIN m THEN m[k] ELSE <<>>) \o <<v>>
                                 ELSE m[x]]

\* Values.Set.
ValuesSet(m, k, v) == [x \in DOMAIN m \cup {k} |-> IF x = k THEN <<v>> ELSE m[x]]

\* url.parseQuery: a pair with a semicolon or a malformed escape is skipped (and
\* reported in an error that (*URL).Query drops).
RECURSIVE ParseQueryInto(_, _)
PairOf(m, k, v, rest) ==
    IF k.err \/ v.err THEN ParseQueryInto(m, rest)
    ELSE ParseQueryInto(ValuesAdd(m, k.s, v.s), rest)

PairAt(m, kv, rest) == PairOf(m, QueryUnescape(kv.before), QueryUnescape(kv.after), rest)

SegmentOf(m, c) ==
    IF Contains(c.before, <<";">>) \/ c.before = <<>> THEN ParseQueryInto(m, c.after)
    ELSE PairAt(m, Cut(c.before, <<"=">>), c.after)

ParseQueryInto(m, query) ==
    IF query = <<>> THEN m ELSE SegmentOf(m, Cut(query, <<"&">>))

\* (*URL).Query.
URLQuery(u) == ParseQueryInto(EmptyValues, u.RawQuery)

\* sort.Strings of a set of keys.
RECURSIVE SortKeys(_)
LeastFirst(keys, least) == <<least>> \o SortKeys(keys \ {least})

SortKeys(keys) ==
    IF keys = {} THEN <<>>
    ELSE LeastFirst(keys, CHOOSE k \in keys : \A o \in keys \ {k} : StrLess(k, o))

\* Values.Encode, the pairs of one key: "&k=v&k=v...".
RECURSIVE EncodeValues(_, _)
EncodeValues(k, vs) ==
    IF vs = <<>> THEN <<>>
    ELSE <<"&">> \o QueryEscape(k) \o <<"=">> \o QueryEscape(Head(vs))
         \o EncodeValues(k, Tail(vs))

RECURSIVE EncodeKeys(_, _)
EncodeKeys(m, keys) ==
    IF keys = <<>> THEN <<>>
    ELSE EncodeValues(Head(keys), m[Head(keys)]) \o EncodeKeys(m, Tail(keys))

\* Values.Encode: "k=v&k=v..." sorted by key.
ValuesEncode(m) == Drop(EncodeKeys(m, SortKeys(DOMAIN m)), 1)

-----------------------------------------------------------------------------
(* request.go: applyQuery *)

RECURSIVE SetEach(_, _, _)
SetEach(q, query, keys) ==
    IF keys = <<>> THEN q
    ELSE SetEach(ValuesSet(q, Head(keys), query[Head(keys)]), query, Tail(keys))

\* applyQuery after url.Parse: u is the parsed rawURL.  The keys of query are
\* distinct, so the order of the range over it does not show in q.
applyQueryOf(u, query) ==
    IF u.err THEN [url |-> <<>>, err |-> TRUE]
    ELSE [url |-> URLString([u EXCEPT !.RawQuery =
                     ValuesEncode(SetEach(URLQuery(u), query, SortKeys(DOMAIN query)))]),
          err |-> FALSE]

\* applyQuery(rawURL, query): [url, err].
applyQuery(rawURL, query) ==
    IF DOMAIN query = {} THEN [url |-> rawURL, err |-> FALSE]
    ELSE applyQueryOf(URLParse(rawURL), query)

-----------------------------------------------------------------------------
(* net/http/cookiejar (the default jar: no public suffix list).  Every cookie
   of the model has Path "/" and no Domain attribute, as the ones SetCookie and
   DeleteCookie build, so an entry is identified by (host, name) and matches
   every path of its host.  The jar is the sequence of its entries in creation
   order, the order in which Cookies lists them. *)

HTTPScheme  == <<"h", "t", "t", "p">>
HTTPSScheme == <<"h", "t", "t", "p", "s">>

\* cookiejar.hasPort and net.SplitHostPort, for hosts without brackets.
StripPort(host) ==
    IF Count(host, ":") = 1 THEN Take(host, Index(host, <<":">>)) ELSE host

TrimDot(h) == IF HasSuffix(h, <<".">>) THEN Take(h, Len(h) - 1) ELSE h

\* cookiejar.canonicalHost.
CanonicalHost(host) == ToLower(TrimDot(StripPort(host)))

RECURSIVE RemoveEntry(_, _, _)
RemoveEntry(entries, host, name) ==
    IF entries = <<>> THEN <<>>
    ELSE IF Head(entries).host = host /\ Head(entries).name = name
         THEN RemoveEntry(Tail(entries), host, name)
         ELSE <<Head(entries)>> \o RemoveEntry(Tail(entries), host, name)

\* One cookie of Jar.setCookies: MaxAge < 0 removes the entry, an entry that
\* exists keeps its creation order, a new one is created last.
StoreCookie(entries, host, ck) ==
    IF ck.MaxAge < 0 THEN RemoveEntry(entries, host, ck.Name)
    ELSE IF \E i \in DOMAIN entries : entries[i].host = host /\ entries[i].name = ck.Name
    THEN [i \in DOMAIN entries |->
             IF entries[i].host = host /\ entries[i].name = ck.Name
             THEN [entries[i] EXCEPT !.value = ck.Value] ELSE entries[i]]
    ELSE Append(entries, [host |-> host, name |-> ck.Name, value |-> ck.Value])

RECURSIVE StoreCookies(_, _, _)
StoreCookies(entries, host, cookies) ==
    IF cookies = <<>> THEN entries
    ELSE StoreCookies(StoreCookie(entries, host, Head(cookies)), host, Tail(cookies))

\* (*Jar).SetCookies(u, cookies).
JarSetCookies(entries, u, cookies) ==
    IF cookies = <<>> THEN entries
    ELSE IF u.Scheme # HTTPScheme /\ u.Scheme # HTTPSScheme THEN entries
    ELSE StoreCookies(entries, CanonicalHost(u.Host), cookies)

RECURSIVE EntriesOf(_, _)
EntriesOf(entries, host) ==
    IF entries = <<>> THEN <<>>
    ELSE (IF Head(entries).host = host
          THEN <<[Name |-> Head(entries).name, Value |-> Head(entries).value]>>
          ELSE <<>>)
         \o EntriesOf(Tail(entries), host)

\* (*Jar).Cookies(u).
JarCookies(entries, u) ==
    IF u.Scheme # HTTPScheme /\ u.Scheme # HTTPSScheme THEN <<>>
    ELSE EntriesOf(entries, CanonicalHost(u.Host))

-----------------------------------------------------------------------------
(* client.go: the cookie helpers.  Each returns [err, jar, cookies]: the error,
   the jar afterwards, and the cookies GetCookies hands back. *)

\* SetCookie and DeleteCookie after url.Parse: u is the parsed rawURL.
SetCookiesOf(entries, u, cookie) ==
    IF u.err THEN [err |-> TRUE, jar |-> entries, cookies |-> <<>>]
    ELSE [err |-> FALSE, jar |-> JarSetCookies(entries, u, <<cookie>>), cookies |-> <<>>]

\* (*Client).SetCookie(rawURL, name, value).
SetCookie(entries, rawURL, name, value) ==
    SetCookiesOf(entries, URLParse(rawURL), [Name |-> name, Value |-> value, MaxAge |-> 0])

\* (*Client).DeleteCookie(rawURL, name).
DeleteCookie(entries, rawURL, name) ==
    SetCookiesOf(entries, URLParse(rawURL), [Name |-> name, Value |-> "", MaxAge |-> -1])

GetCookiesOf(entries, u) ==
    IF u.err THEN [err |-> TRUE, jar |-> entries, cookies |-> <<>>]
    ELSE [err |-> FALSE, jar |-> entries, cookies |-> JarCookies(entries, u)]

\* (*Client).GetCookies(rawURL).
GetCookies(entries, rawURL) == GetCookiesOf(entries, URLParse(rawURL))

-----------------------------------------------------------------------------
(* request.go: Do, Get, Post, PostJSON *)

NilResp == [nil |-> TRUE, setCookies |-> <<>>, decodable |-> FALSE, bodyClosed |-> FALSE]
NoReq ==
    [method |-> <<>>, url |-> <<>>, URL |-> EmptyURL, header |-> EmptyHeader,
     cookies |-> <<>>]

\* What a call returns and what it did: the response and the error, the number
\* of round trips it asked of the transport, the request the transport saw and
\* the jar afterwards.
Failed(entries) ==
    [resp |-> NilResp, err |-> TRUE, roundTrips |-> 0, req |-> NoReq, jar |-> entries]

\* http.removeEmptyPort.
RemoveEmptyPort(host) ==
    IF LastIndex(host, <<":">>) > LastIndex(host, <<"]">>) /\ HasSuffix(host, <<":">>)
    THEN Take(host, Len(host) - 1) ELSE host

\* http.NewRequestWithContext that does not look at the error of url.Parse.
NewRequestUnchecked(method, url, u) ==
    IF ~ValidMethod(method) THEN [err |-> TRUE, req |-> NoReq]
    ELSE [err |-> FALSE,
          req |-> [method |-> IF method = <<>> THEN <<"G", "E", "T">> ELSE method,
                   url |-> url,
                   URL |-> [u EXCEPT !.err = FALSE],
                   header |-> EmptyHeader, cookies |-> <<>>]]

\* http.NewRequestWithContext after url.Parse: u is the parsed url.
NewRequestOf(method, url, u) ==
    IF ~ValidMethod(method) \/ u.err THEN [err |-> TRUE, req |-> NoReq]
    ELSE [err |-> FALSE,
          req |-> [method |-> IF method = <<>> THEN <<"G", "E", "T">> ELSE method,
                   url |-> url,
                   URL |-> [u EXCEPT !.Host = RemoveEmptyPort(u.Host)],
                   header |-> EmptyHeader, cookies |-> <<>>]]

\* http.NewRequestWithContext(ctx, method, url, body) with a non-nil ctx: [err, req].
NewRequest(method, url) == NewRequestOf(method, url, URLParse(url))

\* A send that also stores the cookies of the request in the jar.
RoundTripStoringSent(entries, sent, outcome) ==
    IF ~(outcome.kind = "response"
         /\ sent.URL.Scheme \in {HTTPScheme, HTTPSScheme} /\ sent.URL.Host # <<>>)
    THEN [resp |-> NilResp, err |-> TRUE, roundTrips |-> 1, req |-> sent, jar |-> entries]
    ELSE [resp |-> [nil |-> FALSE, setCookies |-> outcome.setCookies,
                    decodable |-> outcome.decodable, bodyClosed |-> FALSE],
          err |-> FALSE, roundTrips |-> 1, req |-> sent,
          jar |-> JarSetCookies(entries, sent.URL,
                      [i \in DOMAIN sent.cookies |->
                          [Name |-> sent.cookies[i].Name, Value |-> sent.cookies[i].Value,
                           MaxAge |-> 0]]
                      \o outcome.setCookies)]

\* (*http.Client).send: the transport is asked for the round trip of sent, and
\* the cookies of the response are stored in the jar.  The transport refuses,
\* without a connection, a URL that is not http(s) or has no host.
RoundTrip(entries, sent, outcome) ==
    IF ~(outcome.kind = "response"
         /\ sent.URL.Scheme \in {HTTPScheme, HTTPSScheme} /\ sent.URL.Host # <<>>)
    THEN [resp |-> NilResp, err |-> TRUE, roundTrips |-> 1, req |-> sent, jar |-> entries]
    ELSE [resp |-> [nil |-> FALSE, setCookies |-> outcome.setCookies,
                    decodable |-> outcome.decodable, bodyClosed |-> FALSE],
          err |-> FALSE, roundTrips |-> 1, req |-> sent,
          jar |-> JarSetCookies(entries, sent.URL, outcome.setCookies)]

\* (*http.Client).Do(req), one round trip (the server does not redirect): the
\* jar's cookies for the URL are added to the request before it is sent.
HTTPClientDo(entries, req, outcome) ==
    RoundTrip(entries, [req EXCEPT !.cookies = req.cookies \o JarCookies(entries, req.URL)],
              outcome)

\* (*Client).Do after http.NewRequestWithContext: n is what it returned.
DoRequest(c, entries, n, opt, baseOrder, optOrder, outcome) ==
    IF n.err THEN Failed(entries)
    ELSE HTTPClientDo(entries,
                      [n.req EXCEPT
                          !.header = SetAll(SetAll(n.req.header, c.baseHeaders, baseOrder),
                                            opt.Headers.m, optOrder),
                          !.cookies = opt.Cookies],
                      outcome)

\* (*Client).Do after applyQuery: f is what it returned.
DoURL(c, entries, method, f, opt, baseOrder, optOrder, outcome) ==
    IF f.err THEN Failed(entries)
    ELSE DoRequest(c, entries, NewRequest(method, f.url), opt, baseOrder, optOrder, outcome)

\* (*Client).Do(ctx, method, rawURL, body, opt).  baseOrder and optOrder are the
\* orders in which the two ranges visit c.baseHeaders and opt.Headers.
Do(c, entries, method, rawURL, opt, baseOrder, optOrder, outcome) ==
    DoURL(c, entries, method, applyQuery(rawURL, opt.Query), opt, baseOrder, optOrder,
          outcome)

MethodGet  == <<"G", "E", "T">>
MethodPost == <<"P", "O", "S", "T">>

\* (*Client).Get and (*Client).Post.
Get(c, entries, rawURL, opt, baseOrder, optOrder, outcome) ==
    Do(c, entries, MethodGet, rawURL, opt, baseOrder, optOrder, outcome)
Post(c, entries, rawURL, opt, baseOrder, optOrder, outcome) ==
    Do(c, entries, MethodPost, rawURL, opt, baseOrder, optOrder, outcome)

\* A Go map value is a reference: nil, or a map shared with the caller.
NilMap == [nil |-> TRUE, m |-> EmptyMap]
MapOf(m) == [nil |-> FALSE, m |-> m]

\* The Headers map PostJSON hands to Do.
PostJSONHeaders(headers) ==
    IF MapGet(headers.m, ContentType) = ""
    THEN MapOf(MapPut(headers.m, ContentType, "application/json"))
    ELSE headers

\* The caller's Headers map after PostJSON: a nil map is replaced in PostJSON's
\* copy of opt only; a non-nil map is the caller's own, and is written to.
PostJSONCallerHeaders(headers) ==
    IF headers.nil THEN headers ELSE PostJSONHeaders(headers)

\* (*Client).PostJSON after c.Do: r is what it returned.
PostJSONOf(r, outNonNil) ==
    IF r.err THEN [r EXCEPT !.resp = NilResp]
    ELSE IF ~outNonNil THEN r
    ELSE IF ~r.resp.decodable THEN [r EXCEPT !.resp = NilResp, !.err = TRUE]
    ELSE [r EXCEPT !.resp.bodyClosed = TRUE]

\* (*Client).PostJSON(ctx, rawURL, payload, out, opt): the result of the call,
\* as for Do.  jsonOK: json.Marshal(payload) succeeds; outNonNil: out != nil;
\* optOrder is an order over the keys of the map handed to Do.
PostJSON(c, entries, rawURL, jsonOK, outNonNil, opt, baseOrder, optOrder, outcome) ==
    IF ~jsonOK THEN Failed(entries)
    ELSE PostJSONOf(Do(c, entries, MethodPost, rawURL,
                       [opt EXCEPT !.Headers = PostJSONHeaders(opt.Headers)],
                       baseOrder, optOrder, outcome),
                    outNonNil)

-----------------------------------------------------------------------------
(* helpers.go: ReadBody.  The response body is a stream of bytes that ends in
   io.EOF or in a read error; a Read may hand out any part of what is left, and
   may report the end together with the last bytes or on the next Read. *)

\* A Read that hands out n of the avail bytes left.
ReadOf(n, avail, ending, eager) ==
    [n |-> n, err |-> IF n = avail /\ eager THEN ending ELSE "nil"]

\* One Read of the response body with room for room bytes, at offset pos:
\* k bytes are handed out, and eager says the end is reported with them.
BodyRead(data, ending, pos, room, k, eager) ==
    IF Len(data) - pos = 0 THEN [n |-> 0, err |-> ending]
    ELSE IF room = 0 THEN [n |-> 0, err |-> "nil"]
    ELSE ReadOf(Min(k, Min(room, Len(data) - pos)), Len(data) - pos, ending, eager)

\* A reader that is not limited: the body itself.
UnlimitedRead(data, ending, pos, left, room, k, eager) ==
    BodyRead(data, ending, pos, room, k, eager)

\* (*io.LimitedReader).Read with N = left over the body: io.LimitReader(resp.Body, maxBytes).
LimitedRead(data, ending, pos, left, room, k, eager) ==
    IF left <= 0 THEN [n |-> 0, err |-> "EOF"]
    ELSE BodyRead(data, ending, pos, Min(room, left), k, eager)

NoReadBody ==
    [pc |-> "idle", data |-> <<>>, ending |-> "EOF", maxBytes |-> 0, left |-> 0,
     buf |-> <<>>, result |-> <<>>, err |-> "nil", closes |-> 0]

\* io.ReadAll after one Read returned r.  On io.EOF or an error ReadAll returns,
\* then ReadBody returns and its deferred resp.Body.Close() runs.
ReadReturned(b, r, buf) ==
    IF r.err = "nil" THEN [b EXCEPT !.buf = buf, !.left = b.left - r.n]
    ELSE [b EXCEPT !.pc = "done", !.buf = buf, !.left = b.left - r.n,
                   !.result = IF r.err = "EOF" THEN buf ELSE <<>>,
                   !.err = IF r.err = "EOF" THEN "nil" ELSE r.err,
                   !.closes = b.closes + 1]

\* io.ReadAll's append of the n bytes a Read handed out.
ReadInto(b, r) ==
    ReadReturned(b, r, b.buf \o SubSeq(b.data, Len(b.buf) + 1, Len(b.buf) + r.n))

-----------------------------------------------------------------------------
(* Bounds and the inputs of the model *)

MaxProxyLen == 7    \* longest raw proxy string
MaxQueryLen == 4    \* longest raw query of a target URL
MaxBody     == 3    \* longest response body
MaxLimit    == 4    \* largest maxBytes

ProxyAlphabet == {"h", "1", ":", "/", " "}
QueryAlphabet == {"q", "r", "2", "=", "&", ";", "%"}
BodyAlphabet  == {"x", "y"}

LowerUserAgent   == <<"u", "s", "e", "r", "-", "a", "g", "e", "n", "t">>
LowerContentType == <<"c", "o", "n", "t", "e", "n", "t", "-", "t", "y", "p", "e">>

\* Config.BaseHeaders.
BaseHeaderChoices == {EmptyMap, (LowerUserAgent :> "MyApp/1.0")}

\* Target URLs: http://a/x?q=1, one url.Parse rejects (a space in the host), and
\* a relative one, which parses and which the transport refuses.
TargetOK  == <<"h", "t", "t", "p", ":", "/", "/", "a", "/", "x", "?", "q", "=", "1">>
TargetBad == <<"h", "t", "t", "p", ":", "/", "/", "a", " ", "b", "/">>
TargetRel == <<"a", "/", "x">>

ZeroOptions == [Headers |-> NilMap, Query |-> EmptyMap, Cookies |-> <<>>]

PerCallCookie == [Name |-> "pc", Value |-> "1"]
OverlayQ == (<<"q">> :> <<"2">>)

\* The Options values a caller builds.
OptionChoices ==
    {ZeroOptions,
     [ZeroOptions EXCEPT !.Headers = MapOf(LowerContentType :> "text/plain"),
                         !.Cookies = <<PerCallCookie>>],
     [ZeroOptions EXCEPT !.Headers = MapOf((UserAgent :> "custom/1.0")
                                           @@ (ContentType :> "text/plain")),
                         !.Query = OverlayQ]}

\* What the transport and the server answer: a transport error, or a response
\* with its Set-Cookie cookies (Path=/) and a body that is, or is not, the JSON
\* the caller decodes.
ServerCookie == [Name |-> "sid", Value |-> "srv", MaxAge |-> 0]
TransportError == [kind |-> "error", setCookies |-> <<>>, decodable |-> FALSE]
Response(cookies, decodable) ==
    [kind |-> "response", setCookies |-> cookies, decodable |-> decodable]
Outcomes == {TransportError, Response(<<>>, TRUE), Response(<<ServerCookie>>, TRUE)}

\* The calls of the model: a target with each outcome, and the targets and the
\* method that fail before the transport with one.
MethodPut == <<"P", "U", "T">>
MethodBad == <<"P", " ">>
Requests == ({TargetOK} \X Outcomes) \cup {<<TargetBad, TransportError>>}
DoRequests ==
    ({MethodPut} \X Requests)
    \cup {<<MethodPut, <<TargetRel, Response(<<>>, TRUE)>>>>,
          <<MethodBad, <<TargetOK, Response(<<>>, TRUE)>>>>}
\* <<request, json.Marshal succeeds, out is not nil>>.
JSONRequests ==
    (Requests \X {<<TRUE, FALSE>>, <<TRUE, TRUE>>})
    \cup {<<<<TargetOK, Response(<<>>, FALSE)>>, <<TRUE, TRUE>>>>,
          <<<<TargetOK, Response(<<>>, TRUE)>>, <<FALSE, FALSE>>>>}

\* URLs of the cookie helpers: https://A:1/x, a (no scheme: url.Parse accepts
\* it), and one url.Parse rejects.
CookieURL      == <<"h", "t", "t", "p", "s", ":", "/", "/", "A", ":", "1", "/", "x">>
CookieURLBare  == <<"a">>
CookieURLBad   == <<":">>
CookieURLs     == {CookieURL, CookieURLBare, CookieURLBad}
CookieNames    == {"sid", "tok"}
CookieValues   == {"abc", "xyz"}

-----------------------------------------------------------------------------
(* State *)

NoProxyOut ==
    [converted |-> FALSE, url |-> <<>>, err |-> FALSE, newCalled |-> FALSE, newErr |-> FALSE]
NoQueryIn == [url |-> <<>>, query |-> EmptyMap]
NoQueryOut == [done |-> FALSE, url |-> <<>>, err |-> FALSE]
NoConfig ==
    [ProxyURL |-> <<>>, BaseHeaders |-> EmptyMap, Timeout |-> 0, MaxIdleConns |-> 0,
     MaxIdleConnsPerHost |-> 0, IdleConnTimeout |-> 0]
NoCookieLog == [urls |-> {}, lastOp |-> [n \in CookieNames |-> [op |-> "none", value |-> ""]]]

NoCall ==
    [op |-> "none", method |-> <<>>, url |-> <<>>, opt |-> ZeroOptions,
     headersAfter |-> NilMap, jsonOK |-> TRUE, outNonNil |-> FALSE,
     outcome |-> TransportError, resp |-> NilResp, err |-> FALSE, roundTrips |-> 0,
     req |-> NoReq, jarBefore |-> <<>>, name |-> "", value |-> "", cookies |-> <<>>]

Idle ==
    /\ proxyIn = <<>>
    /\ proxyOut = NoProxyOut
    /\ queryIn = NoQueryIn
    /\ queryOut = NoQueryOut
    /\ client = [c |-> NoClient, cfg |-> NoConfig]
    /\ opts = ZeroOptions
    /\ jar = <<>>
    /\ last = NoCall
    /\ cookieLog = NoCookieLog
    /\ rb = NoReadBody


-----------------------------------------------------------------------------
(* Actions *)

\* ProxyURLConvert returned r.
ProxyConverted(r) ==
    proxyOut' = [proxyOut EXCEPT !.converted = TRUE, !.url = r.url, !.err = r.err]

\* ProxyURLConvert(proxyIn).
ConvertProxy ==
    /\ ~proxyOut.converted
    /\ ProxyConverted(ProxyURLConvert(proxyIn))
    /\ UNCHANGED <<proxyIn, queryIn, queryOut, client, opts, jar, last, cookieLog, rb>>

\* New(cfg) returned r.
Constructed(cfg, r) ==
    /\ proxyOut' = [proxyOut EXCEPT !.newCalled = TRUE, !.newErr = r.err]
    /\ client' = [c |-> r.client, cfg |-> cfg]

ConfigOf(proxy, bh, t) ==
    [NoConfig EXCEPT !.ProxyURL = proxy, !.BaseHeaders = bh, !.Timeout = t]

\* New(cfg) with cfg.ProxyURL = proxyIn.
NewCall(baseHeaders, timeouts) ==
    /\ ~proxyOut.newCalled
    /\ \E bh \in baseHeaders, t \in timeouts :
         Constructed(ConfigOf(proxyIn, bh, t), New(ConfigOf(proxyIn, bh, t)))
    /\ UNCHANGED <<proxyIn, queryIn, queryOut, opts, jar, last, cookieLog, rb>>

\* applyQuery returned r.
QueryApplied(r) == queryOut' = [done |-> TRUE, url |-> r.url, err |-> r.err]

\* applyQuery(queryIn.url, queryIn.query).
ApplyQueryCall ==
    /\ ~queryOut.done
    /\ QueryApplied(applyQuery(queryIn.url, queryIn.query))
    /\ UNCHANGED <<proxyIn, proxyOut, queryIn, client, opts, jar, last, cookieLog, rb>>

\* The caller builds an Options value.
MakeOptions ==
    /\ \E o \in OptionChoices : opts' = o
    /\ opts' # opts
    /\ last' = [NoCall EXCEPT !.op = "MakeOptions"]
    /\ UNCHANGED <<proxyIn, proxyOut, queryIn, queryOut, client, jar, cookieLog, rb>>

\* A dispatch returned r; headersAfter is the caller's Headers map after it.
Dispatched(op, method, url, jsonOK, outNonNil, outcome, r, headersAfter) ==
    /\ last' = [NoCall EXCEPT !.op = op, !.method = method, !.url = url, !.opt = opts,
                              !.headersAfter = headersAfter, !.jsonOK = jsonOK,
                              !.outNonNil = outNonNil, !.outcome = outcome,
                              !.resp = r.resp, !.err = r.err,
                              !.roundTrips = r.roundTrips, !.req = r.req,
                              !.jarBefore = jar]
    /\ jar' = r.jar
    /\ opts' = [opts EXCEPT !.Headers = headersAfter]
    /\ UNCHANGED <<proxyIn, proxyOut, queryIn, queryOut, client, cookieLog, rb>>

\* c.Do(ctx, method, url, body, opts).
DoCall ==
    /\ client.c.built
    /\ \E rq \in DoRequests,
          baseOrder \in RangeOrders(client.c.baseHeaders),
          optOrder \in RangeOrders(opts.Headers.m) :
         Dispatched("Do", rq[1], rq[2][1], TRUE, FALSE, rq[2][2],
                    Do(client.c, jar, rq[1], rq[2][1], opts, baseOrder, optOrder,
                       rq[2][2]),
                    opts.Headers)

\* c.Get(ctx, url, opts).
GetCall ==
    /\ client.c.built
    /\ \E rq \in Requests,
          baseOrder \in RangeOrders(client.c.baseHeaders),
          optOrder \in RangeOrders(opts.Headers.m) :
         Dispatched("Get", MethodGet, rq[1], TRUE, FALSE, rq[2],
                    Get(client.c, jar, rq[1], opts, baseOrder, optOrder, rq[2]),
                    opts.Headers)

\* c.Post(ctx, url, body, opts).
PostCall ==
    /\ client.c.built
    /\ \E rq \in Requests,
          baseOrder \in RangeOrders(client.c.baseHeaders),
          optOrder \in RangeOrders(opts.Headers.m) :
         Dispatched("Post", MethodPost, rq[1], TRUE, FALSE, rq[2],
                    Post(client.c, jar, rq[1], opts, baseOrder, optOrder, rq[2]),
                    opts.Headers)

\* c.PostJSON(ctx, url, payload, out, opts).
PostJSONCall ==
    /\ client.c.built
    /\ \E rq \in JSONRequests,
          baseOrder \in RangeOrders(client.c.baseHeaders),
          optOrder \in RangeOrders(PostJSONHeaders(opts.Headers).m) :
         Dispatched("PostJSON", MethodPost, rq[1][1], rq[2][1], rq[2][2], rq[1][2],
                    PostJSON(client.c, jar, rq[1][1], rq[2][1], rq[2][2], opts,
                             baseOrder, optOrder, rq[1][2]),
                    PostJSONCallerHeaders(opts.Headers))

\* A cookie helper returned r; the history of SetCookie / DeleteCookie is kept.
CookieCalled(op, url, name, value, r) ==
    /\ last' = [NoCall EXCEPT !.op = op, !.url = url, !.name = name, !.value = value,
                              !.err = r.err, !.cookies = r.cookies]
    /\ jar' = r.jar
    /\ cookieLog' = IF r.err \/ op = "GetCookies" THEN cookieLog
                    ELSE [urls |-> cookieLog.urls \cup {url},
                          lastOp |-> [cookieLog.lastOp EXCEPT
                                        ![name] = [op |-> op, value |-> value]]]
    /\ UNCHANGED <<proxyIn, proxyOut, queryIn, queryOut, client, opts, rb>>

\* c.SetCookie(url, name, value).
SetCookieCall(urls, names, values) ==
    /\ client.c.built
    /\ \E url \in urls, name \in names, value \in values :
         CookieCalled("SetCookie", url, name, value, SetCookie(jar, url, name, value))

\* c.DeleteCookie(url, name).
DeleteCookieCall(urls, names) ==
    /\ client.c.built
    /\ \E url \in urls, name \in names :
         CookieCalled("DeleteCookie", url, name, "", DeleteCookie(jar, url, name))

\* c.GetCookies(url).
GetCookiesCall(urls) ==
    /\ client.c.built
    /\ \E url \in urls :
         CookieCalled("GetCookies", url, "", "", GetCookies(jar, url))

\* ReadBody(resp, maxBytes) is entered: the deferred Close is registered and the
\* body is wrapped in io.LimitReader(resp.Body, maxBytes).
ReadBodyEnter ==
    /\ rb.pc = "call"
    /\ rb' = [rb EXCEPT !.pc = "reading", !.left = rb.maxBytes]
    /\ UNCHANGED <<proxyIn, proxyOut, queryIn, queryOut, client, opts, jar, last, cookieLog>>

\* One Read of io.ReadAll's loop, into a buffer with room for the whole body.
ReadBodyRead ==
    /\ rb.pc = "reading"
    /\ \E k \in 1..MaxBody, eager \in BOOLEAN :
         rb' = ReadInto(rb, LimitedRead(rb.data, rb.ending, Len(rb.buf), rb.left,
                                        Len(rb.data) + 1, k, eager))
    /\ UNCHANGED <<proxyIn, proxyOut, queryIn, queryOut, client, opts, jar, last, cookieLog>>

-----------------------------------------------------------------------------
(* Specifications *)

\* The Client: construction, the caller's Options, dispatch, and the jar.
Init ==
    \E p \in {<<>>, <<"1", ":", "1">>} :
        /\ proxyIn = p
        /\ proxyOut = NoProxyOut
        /\ queryIn = NoQueryIn
        /\ queryOut = NoQueryOut
        /\ client = [c |-> NoClient, cfg |-> NoConfig]
        /\ opts = ZeroOptions
        /\ jar = <<>>
        /\ last = NoCall
        /\ cookieLog = NoCookieLog
        /\ rb = NoReadBody

Next ==
    \/ NewCall(BaseHeaderChoices, {0})
    \/ MakeOptions
    \/ DoCall
    \/ GetCall
    \/ PostCall
    \/ PostJSONCall

Spec == Init /\ [][Next]_vars

\* The proxy normaliser and construction, over every raw proxy string.
InitProxy ==
    \E p \in StringsUpTo(ProxyAlphabet, MaxProxyLen) :
        /\ proxyIn = p
        /\ proxyOut = NoProxyOut
        /\ queryIn = NoQueryIn
        /\ queryOut = NoQueryOut
        /\ client = [c |-> NoClient, cfg |-> NoConfig]
        /\ opts = ZeroOptions
        /\ jar = <<>>
        /\ last = NoCall
        /\ cookieLog = NoCookieLog
        /\ rb = NoReadBody

NextProxy == ConvertProxy \/ NewCall({EmptyMap}, {0})

SpecProxy == InitProxy /\ [][NextProxy]_vars

\* The query merge, over target URLs with every raw query.
QueryBases == {<<"h", "t", "t", "p", ":", "/", "/", "a", "/", "x">>, <<":">>}
QueryTargets ==
    {b \o s : b \in QueryBases,
              s \in {<<>>} \cup {<<"?">> \o q : q \in StringsUpTo(QueryAlphabet, MaxQueryLen)}}
QueryOverlays ==
    {EmptyMap, OverlayQ, OverlayQ @@ (<<"r">> :> <<"3">>), (<<"r">> :> <<"&", " ">>)}

InitQuery ==
    \E u \in QueryTargets, q \in QueryOverlays :
        /\ proxyIn = <<>>
        /\ proxyOut = NoProxyOut
        /\ queryIn = [url |-> u, query |-> q]
        /\ queryOut = NoQueryOut
        /\ client = [c |-> NoClient, cfg |-> NoConfig]
        /\ opts = ZeroOptions
        /\ jar = <<>>
        /\ last = NoCall
        /\ cookieLog = NoCookieLog
        /\ rb = NoReadBody

NextQuery == ApplyQueryCall

SpecQuery == InitQuery /\ [][NextQuery]_vars

\* The cookie helpers of one Client.
NextCookie ==
    \/ NewCall({EmptyMap}, {0, 30})
    \/ SetCookieCall(CookieURLs, CookieNames, CookieValues)
    \/ DeleteCookieCall(CookieURLs, CookieNames)
    \/ GetCookiesCall(CookieURLs)

SpecCookie == Idle /\ [][NextCookie]_vars

\* ReadBody over every body, ending and limit.
InitRead ==
    \E d \in StringsUpTo(BodyAlphabet, MaxBody), e \in {"EOF", "ERR"}, m \in 0..MaxLimit :
        /\ proxyIn = <<>>
        /\ proxyOut = NoProxyOut
        /\ queryIn = NoQueryIn
        /\ queryOut = NoQueryOut
        /\ client = [c |-> NoClient, cfg |-> NoConfig]
        /\ opts = ZeroOptions
        /\ jar = <<>>
        /\ last = NoCall
        /\ cookieLog = NoCookieLog
        /\ rb = [NoReadBody EXCEPT !.pc = "call", !.data = d, !.ending = e, !.maxBytes = m]

NextRead == ReadBodyEnter \/ ReadBodyRead

SpecRead == InitRead /\ [][NextRead]_vars


-----------------------------------------------------------------------------
(* Claims about the proxy normaliser and construction, checked under SpecProxy *)

\* What C1 expects of ProxyURLConvert for the colon-separated fields of a
\* trimmed string without "://".
ExpectedProxy(parts) ==
    IF Len(parts) = 4 /\ parts[1] # <<>> /\ parts[2] # <<>>
    THEN [url |-> <<"h", "t", "t", "p", ":", "/", "/">>
                  \o Escape(parts[3], "userPassword") \o <<":">>
                  \o Escape(parts[4], "userPassword") \o <<"@">>
                  \o parts[1] \o <<":">> \o parts[2],
          err |-> FALSE]
    ELSE [url |-> <<>>, err |-> TRUE]

\* C1: for every raw proxy string that is non-empty after trimming and holds no
\* "://", ProxyURLConvert succeeds if and only if the string splits on ':' into
\* exactly 4 fields with a non-empty host and a non-empty port; on success the
\* result is "http://" user ":" password "@" host ":" port with user and
\* password percent-encoded, and otherwise it is an error and the empty string.
C1_FourFieldsHostPortNonEmpty ==
    (/\ proxyOut.converted
     /\ TrimSpace(proxyIn) # <<>>
     /\ ~Contains(TrimSpace(proxyIn), <<":", "/", "/">>))
    => [url |-> proxyOut.url, err |-> proxyOut.err]
       = ExpectedProxy(Split(TrimSpace(proxyIn), ":"))

\* C2: New fails, with an error and no Client, for every Config whose ProxyURL
\* is a non-empty string that ProxyURLConvert rejects; construction never
\* completes with such a descriptor.
C2_NewRejectsWhatTheNormaliserRejects ==
    (proxyOut.newCalled /\ proxyIn # <<>> /\ ProxyURLConvert(proxyIn).err)
    => (proxyOut.newErr /\ ~client.c.built)


-----------------------------------------------------------------------------
(* Claims about the query merge, checked under SpecQuery *)

\* The raw query of a URL without fragment, and its '&'-separated pairs.
RawQueryOf(url) == Cut(url, <<"?">>).after
PairsOf(url) == Split(RawQueryOf(url), "&")

\* The key and the value of one pair, percent-decoded where they decode.
Decoded(u, raw) == IF u.err THEN raw ELSE u.s
KeyOf(pair) == Decoded(QueryUnescape(Cut(pair, <<"=">>).before), Cut(pair, <<"=">>).before)
ValueOf(pair) == Decoded(QueryUnescape(Cut(pair, <<"=">>).after), Cut(pair, <<"=">>).after)

\* Each key of the overlay stands in the result once, with the overlay's value.
OverlayWins(pairs, query) ==
    \A k \in DOMAIN query :
        /\ Cardinality({i \in DOMAIN pairs : KeyOf(pairs[i]) = k}) = 1
        /\ \A i \in DOMAIN pairs : KeyOf(pairs[i]) = k => ValueOf(pairs[i]) = query[k]

\* Each pair of the target whose key is not in the overlay stands in the result
\* with its value.
OthersKept(before, after, query) ==
    \A i \in DOMAIN before :
        (before[i] # <<>> /\ KeyOf(before[i]) \notin DOMAIN query)
        => \E j \in DOMAIN after :
              /\ KeyOf(after[j]) = KeyOf(before[i])
              /\ ValueOf(after[j]) = ValueOf(before[i])

\* C4: for every parsable target URL and every non-empty Options.Query, the URL
\* applyQuery produces has, for each key of the overlay, exactly the overlay's
\* value, and keeps every pre-existing parameter whose key is not in the overlay
\* with its original value; with an empty Options.Query the target URL is
\* returned unchanged.
C4_OverlayWinsOthersKept ==
    (queryOut.done /\ ~URLParse(queryIn.url).err)
    => /\ ~queryOut.err
       /\ IF DOMAIN queryIn.query = {} THEN queryOut.url = queryIn.url
          ELSE /\ OverlayWins(PairsOf(queryOut.url), queryIn.query)
               /\ OthersKept(PairsOf(queryIn.url), PairsOf(queryOut.url), queryIn.query)


-----------------------------------------------------------------------------
(* Claims about the cookie helpers, checked under SpecCookie *)

\* The values of the cookies named n in a list of cookies.
ValuesNamed(cookies, n) == {cookies[i].Value : i \in {j \in DOMAIN cookies : cookies[j].Name = n}}

\* C5: for every URL u for which SetCookie and DeleteCookie return no error,
\* after any interleaved sequence of SetCookie(u, n, v) and DeleteCookie(u, n)
\* on one Client, GetCookies(u) contains a cookie named n if and only if the
\* last operation on n was a SetCookie, and then with the value of that
\* SetCookie.
C5_GetCookiesShowsLastSet ==
    (/\ last.op = "GetCookies"
     /\ ~last.err
     /\ cookieLog.urls \subseteq {last.url})
    => \A n \in CookieNames :
          ValuesNamed(last.cookies, n)
          = IF cookieLog.lastOp[n].op = "SetCookie" THEN {cookieLog.lastOp[n].value} ELSE {}


-----------------------------------------------------------------------------
(* Claims about dispatch, checked under Spec *)

DispatchOps == {"Do", "Get", "Post", "PostJSON"}

\* m has an entry for the header name, whatever the case of its key.
Names(m, name) == \E k \in DOMAIN m : CanonicalMIMEHeaderKey(k) = name

\* The one value the outgoing request carries under a header name.
Carries(req, name, value) == name \in DOMAIN req.header /\ req.header[name] = <<value>>

\* C3: the outgoing request of Do carries exactly one value per header name,
\* names compared case-insensitively, chosen by the precedence built-in
\* User-Agent < Config.BaseHeaders < Options.Headers: a name in Options.Headers
\* gets the per-call value, otherwise a name in Config.BaseHeaders gets the
\* config value, otherwise User-Agent is the built-in one; the same on every
\* call with the same inputs.
C3_HeaderPrecedence ==
    (last.op \in {"Do", "Get", "Post"} /\ last.roundTrips = 1)
    => /\ \A k \in DOMAIN last.opt.Headers.m :
             Carries(last.req, CanonicalMIMEHeaderKey(k), last.opt.Headers.m[k])
       /\ \A k \in DOMAIN client.cfg.BaseHeaders :
             ~Names(last.opt.Headers.m, CanonicalMIMEHeaderKey(k))
             => Carries(last.req, CanonicalMIMEHeaderKey(k), client.cfg.BaseHeaders[k])
       /\ (~Names(last.opt.Headers.m, UserAgent) /\ ~Names(client.cfg.BaseHeaders, UserAgent))
          => Carries(last.req, UserAgent, "Mozilla/5.0")
       /\ \A name \in DOMAIN last.req.header : Len(last.req.header[name]) = 1

\* C6: every cookie of Options.Cookies is attached to the request of that one
\* call, next to the cookies the jar supplies, and dispatch never writes it
\* into the jar: a call whose response sets no cookies leaves the jar (so what
\* GetCookies returns) as it was, no entry of the jar is a per-call cookie, and
\* a call without Options.Cookies carries no per-call cookie of an earlier call.
C6_PerCallCookiesAttachedNotStored ==
    /\ \A i \in DOMAIN jar : jar[i].name # PerCallCookie.Name
    /\ last.op \in DispatchOps
       => /\ last.roundTrips = 1
             => last.req.cookies
                = last.opt.Cookies \o JarCookies(last.jarBefore, last.req.URL)
          /\ (last.roundTrips = 0 \/ last.outcome.setCookies = <<>>)
             => jar = last.jarBefore
          /\ last.opt.Cookies = <<>>
             => \A i \in DOMAIN last.req.cookies :
                   last.req.cookies[i].Name # PerCallCookie.Name

\* A call with a per-call cookie went through, its response set no cookie.
C6_Witness ==
    /\ last.op \in DispatchOps
    /\ last.opt.Cookies = <<PerCallCookie>>
    /\ last.roundTrips = 1
    /\ ~last.err
    /\ last.outcome.setCookies = <<>>
    /\ last.req.cookies[1] = PerCallCookie

\* C7: PostJSON sends Content-Type: application/json only if the caller set no
\* value for the Content-Type header in Options.Headers; when the caller's
\* Options.Headers has a Content-Type entry, in whatever case, the outgoing
\* request carries the caller's value.
C7_CallerContentTypeWins ==
    (last.op = "PostJSON" /\ last.roundTrips = 1)
    => /\ \A k \in DOMAIN last.opt.Headers.m :
             (CanonicalMIMEHeaderKey(k) = ContentType /\ last.opt.Headers.m[k] # "")
             => Carries(last.req, ContentType, last.opt.Headers.m[k])
       /\ ~Names(last.opt.Headers.m, ContentType)
          => Carries(last.req, ContentType, "application/json")

\* C8: a call that fails before dispatch makes no network call: PostJSON with a
\* payload that does not serialize, and Do/Get/Post/PostJSON with a malformed
\* target URL, with or without Options.Query, return a nil response and an
\* error and never ask the transport for a round trip.
C8_FailsBeforeDispatch ==
    (/\ last.op \in DispatchOps
     /\ (last.op = "PostJSON" /\ ~last.jsonOK) \/ URLParse(last.url).err)
    => (last.resp.nil /\ last.err /\ last.roundTrips = 0)

\* A call with a malformed target URL and no Options.Query returned.
C8_Witness ==
    /\ last.op \in DispatchOps
    /\ last.jsonOK
    /\ last.opt.Query = EmptyMap
    /\ URLParse(last.url).err
    /\ last.err

\* C10: no dispatch modifies its inputs or the Client's defaults: after any
\* sequence of Do/Get/Post/PostJSON calls the Client's base headers are the
\* ones built at construction, and the Options.Headers map the caller passed
\* has the keys and values it had before the call.
C10_DispatchLeavesInputsAlone ==
    last.op \in DispatchOps
    => /\ client.c.baseHeaders
          = MapCopyInto((UserAgent :> "Mozilla/5.0"), client.cfg.BaseHeaders)
       /\ last.headersAfter = last.opt.Headers
       /\ opts = last.opt


-----------------------------------------------------------------------------
(* Claims about ReadBody, checked under SpecRead *)

\* C9: for every response and every maxBytes >= 0, ReadBody returns at most
\* maxBytes bytes, a prefix of the body; it returns no error merely because the
\* body is longer than maxBytes; it closes the response body exactly once on
\* every return path, and not before it returns; when the read fails partway
\* it returns the empty string and the error.
C9_BoundedReadClosesOnce ==
    /\ rb.pc \in {"call", "reading"} => rb.closes = 0
    /\ rb.pc = "done"
       => /\ rb.closes = 1
          /\ Len(rb.result) <= rb.maxBytes
          /\ rb.result = Take(rb.data, Len(rb.result))
          /\ Len(rb.data) > rb.maxBytes
             => (rb.err = "nil" /\ rb.result = Take(rb.data, rb.maxBytes))
          /\ rb.ending = "EOF"
             => (rb.err = "nil" /\ rb.result = Take(rb.data, rb.maxBytes))
          /\ (rb.ending = "ERR" /\ Len(rb.data) < rb.maxBytes) => rb.err = "ERR"
          /\ rb.err # "nil" => (rb.result = <<>> /\ rb.ending = "ERR")

\* ReadBody returned the first maxBytes bytes of a longer body, and closed it.
C9_Witness ==
    /\ rb.pc = "done"
    /\ rb.maxBytes > 0
    /\ Len(rb.data) > rb.maxBytes
    /\ rb.result = Take(rb.data, rb.maxBytes)
    /\ rb.err = "nil"
    /\ rb.closes = 1

====
